---- MODULE Spec2Model ----
(***************************************************************************)
(* School fee portal: fee reconciliation (parent_database.py,              *)
(* parent_portal.py) and the payment-request lifecycle                     *)
(* (real_payment_system.py, payment_notifications.py).                     *)
(*                                                                         *)
(* The flat files are the state:                                           *)
(*   student_details   data/student_details.json                           *)
(*   student_fees      data/student_fees.json                              *)
(*   default_fees      the default-fee record of the admin application     *)
(*   fees_data         fees_data.csv, the transaction ledger               *)
(*   parent_payments   data/parent_payments.json                           *)
(*   payments_history  parent_payments_history.json                        *)
(*   unreadable        the names of the identity and fee-schedule files    *)
(*                     whose text is not JSON                              *)
(* inflight holds the submissions that have read the request store and     *)
(* have not written it back yet.                                           *)
(* A JSON object is a function whose DOMAIN is its key set, so a missing   *)
(* key is a missing element of the DOMAIN.                                 *)
(***************************************************************************)
EXTENDS Integers, Sequences, FiniteSets, TLC

VARIABLES student_details, student_fees, default_fees, fees_data,
          parent_payments, payments_history, clock, current_user, last,
          unreadable, inflight

vars == <<student_details, student_fees, default_fees, fees_data,
          parent_payments, payments_history, clock, current_user, last,
          unreadable, inflight>>

-----------------------------------------------------------------------------
(* Bounds of the model *)

\* rows in fees_data.csv
MaxRows == 2
\* records in parent_payments_history.json, all students together
MaxHistory == 2
\* records in data/parent_payments.json, all students together
MaxRequests == 2
\* seconds the clock can advance
MaxClock == 1

\* rows of the ledger of receipts (SpecReceipts)
MaxReceipts == 3

-----------------------------------------------------------------------------
(* Values *)

Students == {"S1", "S2"}

TransactionIds == {"T1", "T2"}

\* session_state['current_user'] is unset or names the admin who is logged in
Users == {"unset", "clerk"}

\* get_unpaid_months: the calendar of parent_database.py
all_months ==
    <<"JANUARY", "FEBRUARY", "MARCH", "APRIL", "MAY", "JUNE",
      "JULY", "AUGUST", "SEPTEMBER", "OCTOBER", "NOVEMBER", "DECEMBER">>

\* get_student_fee_details: the calendar of parent_portal.py
all_months_portal ==
    <<"APRIL", "MAY", "JUNE", "JULY", "AUGUST", "SEPTEMBER",
      "OCTOBER", "NOVEMBER", "DECEMBER", "JANUARY", "FEBRUARY", "MARCH">>

\* the Month written by handle_parent_payment
PARENT_PAYMENT == "PARENT_PAYMENT"

\* the fixed academic year length
MonthsPerYear == 12

\* fallback literals of get_student_monthly_fee / annual_fee / admission_fee
FallbackMonthlyFee == 3000
FallbackAnnualFee == 3500
FallbackAdmissionFee == 10000

\* the return value None
None == [none |-> TRUE]

IsNone(r) == "none" \in DOMAIN r

Range(s) == {s[i] : i \in DOMAIN s}

Max(a, b) == IF a >= b THEN a ELSE b

\* dict.get(key, default)
Get(d, k, default) == IF k \in DOMAIN d THEN d[k] ELSE default

\* a CSV cell holding an amount: text that float() parses, or text it rejects
Cell(n) == [ok |-> TRUE, n |-> n]

BadCell == [ok |-> FALSE, n |-> 0]

RECURSIVE SumSeq(_)
SumSeq(s) == IF s = << >> THEN 0 ELSE Head(s) + SumSeq(Tail(s))

\* A JSON file: missing, unreadable as JSON, or an object. The object keeps its
\* keys in insertion order, so it is a sequence of key/value entries.
MissingFile == [state |-> "missing", data |-> << >>]

CorruptFile == [state |-> "corrupt", data |-> << >>]

File(data) == [state |-> "ok", data |-> data]

\* key in payments
HasKey(payments, k) == \E i \in DOMAIN payments : payments[i].key = k

\* payments.get(key, [])
ListOf(payments, k) ==
    IF HasKey(payments, k)
    THEN payments[CHOOSE i \in DOMAIN payments : payments[i].key = k].value
    ELSE << >>

InsertFirst(payments, k, payment_data) ==
    IF HasKey(payments, k)
    THEN [i \in DOMAIN payments |->
            IF payments[i].key = k
            THEN [key |-> k, value |-> <<payment_data>> \o payments[i].value]
            ELSE payments[i]]
    ELSE Append(payments, [key |-> k, value |-> <<payment_data>>])

\* if student_id not in payments: payments[student_id] = []
\* payments[student_id].append(payment_data)
AppendTo(payments, k, payment_data) ==
    IF HasKey(payments, k)
    THEN [i \in DOMAIN payments |->
            IF payments[i].key = k
            THEN [key |-> k, value |-> Append(payments[i].value, payment_data)]
            ELSE payments[i]]
    ELSE Append(payments, [key |-> k, value |-> <<payment_data>>])

\* number of records in a store, all students together
StoreSize(payments) == SumSeq([i \in DOMAIN payments |-> Len(payments[i].value)])

\* the records of a store in store order: student by student, list by list
RECURSIVE Flatten(_)
Flatten(payments) ==
    IF payments = << >> THEN << >>
    ELSE Head(payments).value \o Flatten(Tail(payments))

-----------------------------------------------------------------------------
(* parent_database.py: the Fee Ledger Reader and the Month Status Resolver *)

RowsOfAnyStudent(student_id) == fees_data

\* rows of the ledger whose ID is the student's, in file order
RowsOf(student_id) == SelectSeq(fees_data, LAMBDA row : row.ID = student_id)

\* the loop of get_student_fee_summary: float() of Received Amount, a row
\* that does not parse is passed over
received_of(student_id) ==
    LET rows == RowsOf(student_id)
    IN  SumSeq([i \in DOMAIN rows |->
                  IF rows[i].Received_Amount.ok THEN rows[i].Received_Amount.n ELSE 0])

summary_total_due(monthly_fee, admission_fee, annual_fee) ==
    (monthly_fee * MonthsPerYear) + admission_fee + annual_fee

summary_balance_unclamped(total_due, received) == total_due - received

\* balance = total_due - received; "balance_due": max(0, balance)
summary_balance_due(total_due, received) == Max(0, total_due - received)

\* round(x, digits) of a quotient a / b >= 0, as a whole number of units of
\* the last digit kept: to the nearest unit, a tie to the even one
RoundHalfEven(a, b) ==
    LET q == a \div b
        r == a % b
    IN  IF 2 * r < b THEN q
        ELSE IF 2 * r > b THEN q + 1
        ELSE IF q % 2 = 0 THEN q ELSE q + 1

summary_percentage_paid_full(received, total_due) ==
    IF total_due > 0 THEN RoundHalfEven(received * 10000, total_due) ELSE 10000

\* round((received / total_due * 100) if total_due > 0 else 0, 2), in
\* hundredths of a percent
summary_percentage_paid(received, total_due) ==
    IF total_due > 0 THEN RoundHalfEven(received * 10000, total_due) ELSE 0

summary_not_found_both(student_id) ==
    /\ \/ student_id \notin DOMAIN student_details
       \/ DOMAIN student_details[student_id] = {}
    /\ \/ student_id \notin DOMAIN student_fees
       \/ DOMAIN student_fees[student_id] = {}

\* if not student or not fees: None and the empty record are both falsy
summary_not_found(student_id) ==
    \/ student_id \notin DOMAIN student_details
    \/ DOMAIN student_details[student_id] = {}
    \/ student_id \notin DOMAIN student_fees
    \/ DOMAIN student_fees[student_id] = {}

get_student_fee_summary(student_id) ==
    IF summary_not_found(student_id)
    THEN None
    ELSE LET fees == student_fees[student_id]
             monthly_fee == Get(fees, "monthly_fee", 0)
             admission_fee == Get(fees, "admission_fee", 0)
             annual_fee == Get(fees, "annual_fee", 0)
             received == received_of(student_id)
             total_due == summary_total_due(monthly_fee, admission_fee, annual_fee)
         IN  [student_id |-> student_id,
              monthly_fee |-> monthly_fee,
              admission_fee |-> admission_fee,
              annual_fee |-> annual_fee,
              total_yearly_due |-> total_due,
              total_received |-> received,
              balance_due |-> summary_balance_due(total_due, received),
              percentage_paid |-> summary_percentage_paid(received, total_due)]

\* get_paid_months, when no cell makes it raise (get_paid_months_raises): one
\* entry per ledger row of the student with Monthly Fee > 0
get_paid_months(student_id) ==
    LET rows == SelectSeq(RowsOf(student_id),
                          LAMBDA row : row.Monthly_Fee.ok /\ row.Monthly_Fee.n > 0)
    IN  [i \in DOMAIN rows |->
           [month |-> rows[i].Month,
            amount |-> rows[i].Monthly_Fee.n,
            date |-> rows[i].Date]]

get_unpaid_months(student_id) ==
    LET paid_months_data == get_paid_months(student_id)
        paid_months == {paid_months_data[i].month : i \in DOMAIN paid_months_data}
    IN  SelectSeq(all_months, LAMBDA month : month \notin paid_months)

\* json.load of get_student_details is outside any try: a file that is there
\* and does not parse raises out of the lookup
get_student_details_raises == "student_details" \in unreadable

\* json.load of get_student_fees, likewise
get_student_fees_raises == "student_fees" \in unreadable

\* get_student_fee_summary calls both lookups before anything else; the loop
\* over the ledger has its own try / except
get_student_fee_summary_raises ==
    get_student_details_raises \/ get_student_fees_raises

\* get_paid_months: float(row.get('Monthly Fee', 0)) is evaluated, outside any
\* try, for every row whose ID is the student's
get_paid_months_raises(student_id) ==
    \E i \in DOMAIN fees_data :
       fees_data[i].ID = student_id /\ ~fees_data[i].Monthly_Fee.ok

\* get_unpaid_months calls get_paid_months and catches nothing
get_unpaid_months_raises(student_id) == get_paid_months_raises(student_id)

\* sorted(history, key=lambda x: x['date'], reverse=True): a stable sort,
\* latest date first
RECURSIVE sorted_by_date_reverse(_)
sorted_by_date_reverse(history) ==
    IF history = << >> THEN << >>
    ELSE LET latest == CHOOSE i \in DOMAIN history :
                          /\ \A j \in DOMAIN history : history[j].date <= history[i].date
                          /\ \A j \in 1..(i - 1) : history[j].date < history[i].date
             rest == [j \in 1..(Len(history) - 1) |->
                        IF j < latest THEN history[j] ELSE history[j + 1]]
         IN  <<history[latest]>> \o sorted_by_date_reverse(rest)

\* get_payment_history: the rows of the student whose Received Amount parses
\* and is positive; a row that does not parse is passed over
get_payment_history(student_id) ==
    LET rows == SelectSeq(RowsOf(student_id),
                          LAMBDA row : row.Received_Amount.ok
                                         /\ row.Received_Amount.n > 0)
    IN  sorted_by_date_reverse([i \in DOMAIN rows |->
                                  [date |-> rows[i].Date,
                                   amount |-> rows[i].Received_Amount.n]])

-----------------------------------------------------------------------------
(* parent_portal.py: the Reconciliation Facade *)

\* database.load_data: the ledger as a table with numeric amount columns
load_data ==
    [i \in DOMAIN fees_data |->
       [ID |-> fees_data[i].ID,
        Month |-> fees_data[i].Month,
        Monthly_Fee |-> IF fees_data[i].Monthly_Fee.ok
                        THEN fees_data[i].Monthly_Fee.n ELSE 0,
        Annual_Charges |-> fees_data[i].Annual_Charges,
        Admission_Fee |-> fees_data[i].Admission_Fee,
        Received_Amount |-> IF fees_data[i].Received_Amount.ok
                            THEN fees_data[i].Received_Amount.n ELSE 0,
        Date |-> fees_data[i].Date]]

get_student_monthly_fee_zero_default(student_id) ==
    IF student_id \in DOMAIN student_fees
    THEN Get(student_fees[student_id], "monthly_fee", 0)
    ELSE Get(default_fees, "monthly_fee", 0)

get_student_monthly_fee(student_id) ==
    IF student_id \in DOMAIN student_fees
    THEN Get(student_fees[student_id], "monthly_fee", FallbackMonthlyFee)
    ELSE Get(default_fees, "monthly_fee", FallbackMonthlyFee)

get_student_annual_fee(student_id) ==
    IF student_id \in DOMAIN student_fees
    THEN Get(student_fees[student_id], "annual_fee", FallbackAnnualFee)
    ELSE Get(default_fees, "annual_charges", FallbackAnnualFee)

get_student_admission_fee(student_id) ==
    IF student_id \in DOMAIN student_fees
    THEN Get(student_fees[student_id], "admission_fee", FallbackAdmissionFee)
    ELSE Get(default_fees, "admission_fee", FallbackAdmissionFee)

\* df[df['ID'] == student_id]
student_records_of(student_id) ==
    SelectSeq(load_data, LAMBDA row : row.ID = student_id)

\* student_records[(Month == month) & (Monthly Fee > 0)]
month_records_of(student_records, month) ==
    SelectSeq(student_records,
              LAMBDA row : row.Month = month /\ row.Monthly_Fee > 0)

\* the loop over all_months: a month with a record goes to paid_months with
\* the amount and date of its first record
details_paid_months(student_records) ==
    LET months == SelectSeq(all_months_portal,
                            LAMBDA month : month_records_of(student_records, month) # << >>)
    IN  [i \in DOMAIN months |->
           [month |-> months[i],
            amount |-> month_records_of(student_records, months[i])[1].Monthly_Fee,
            date |-> month_records_of(student_records, months[i])[1].Date]]

\* ... and a month without one goes to unpaid_months
details_unpaid_months(student_records) ==
    SelectSeq(all_months_portal,
              LAMBDA month : month_records_of(student_records, month) = << >>)

\* total_due of get_student_fee_details: a fee already paid is left out
details_total_due(monthly_fee, annual_fee, admission_fee, annual_paid, admission_paid) ==
    LET total_monthly_due == monthly_fee * MonthsPerYear
        total_annual_due == IF ~annual_paid THEN annual_fee ELSE 0
        total_admission_due == IF ~admission_paid THEN admission_fee ELSE 0
    IN  total_monthly_due + total_annual_due + total_admission_due

details_balance_unclamped(total_due, total_received) == total_due - total_received

details_balance_due(total_due, total_received) == Max(0, total_due - total_received)

\* round((total_received / total_due * 100) if total_due > 0 else 0, 1), in
\* tenths of a percent
details_percentage_paid(total_received, total_due) ==
    IF total_due > 0 THEN RoundHalfEven(total_received * 1000, total_due) ELSE 0

get_student_fee_details(student_id) ==
    IF student_id \notin DOMAIN student_details
    THEN None
    ELSE LET student_records == student_records_of(student_id)
             monthly_fee_amount == get_student_monthly_fee(student_id)
             annual_fee_amount == get_student_annual_fee(student_id)
             admission_fee_amount == get_student_admission_fee(student_id)
             paid_months == details_paid_months(student_records)
             unpaid_months == details_unpaid_months(student_records)
             annual_paid == \E i \in DOMAIN student_records :
                               student_records[i].Annual_Charges > 0
             admission_paid == \E i \in DOMAIN student_records :
                                  student_records[i].Admission_Fee > 0
             total_received == SumSeq([i \in DOMAIN student_records |->
                                         student_records[i].Received_Amount])
             total_due == details_total_due(monthly_fee_amount, annual_fee_amount,
                                            admission_fee_amount, annual_paid,
                                            admission_paid)
         IN  [student_id |-> student_id,
              monthly_fee |-> monthly_fee_amount,
              annual_fee |-> annual_fee_amount,
              admission_fee |-> admission_fee_amount,
              total_received |-> total_received,
              total_due |-> total_due,
              balance_due |-> details_balance_due(total_due, total_received),
              percentage_paid |-> details_percentage_paid(total_received, total_due),
              paid_months |-> paid_months,
              unpaid_months |-> unpaid_months,
              annual_paid |-> annual_paid,
              admission_paid |-> admission_paid]

-----------------------------------------------------------------------------
(* parent_database.py, parent_portal.py: the Payment Request Store         *)

\* the payments parents make in the model: who pays how much
ParentPayments ==
    {[student_id |-> "S1", amount |-> 3000], [student_id |-> "S2", amount |-> 6000]}

\* what a request of the model is for
RequestKinds ==
    {[payment_type |-> "Annual Fee", selected_months |-> << >>],
     [payment_type |-> "Monthly Fee - JUNE, JULY",
      selected_months |-> <<"JUNE", "JULY">>]}

\* f"PR_{datetime.now().strftime('%Y%m%d%H%M%S')}": the second of the clock
request_id_at(now) == now

\* the store read by record_payment_request and get_payment_requests, after
\* ensure_databases_exist: a missing or unreadable file reads as {}
read_payments_or_empty(file) == IF file.state = "ok" THEN file.data ELSE << >>

payment_request_pending_verification(request_id, amount, payment_type, selected_months) ==
    [request_id |-> request_id,
     amount |-> amount,
     payment_type |-> payment_type,
     status |-> "pending_verification",
     requested_at |-> clock,
     selected_months |-> selected_months]

\* payment_data of record_payment_request
payment_request(request_id, amount, payment_type, selected_months) ==
    [request_id |-> request_id,
     amount |-> amount,
     payment_type |-> payment_type,
     status |-> "pending",
     requested_at |-> clock,
     selected_months |-> selected_months]

record_payment_request(student_id, amount, payment_type, selected_months) ==
    LET request_id == request_id_at(clock)
        payment_data == payment_request(request_id, amount, payment_type,
                                        selected_months)
    IN  /\ StoreSize(parent_payments.data) < MaxRequests
        /\ parent_payments' =
             File(AppendTo(read_payments_or_empty(parent_payments), student_id,
                           payment_data))
        /\ last' = [op |-> "record_payment_request", student_id |-> student_id,
                    ret |-> request_id]
        /\ UNCHANGED <<unreadable, inflight, student_details, student_fees,
                       default_fees, fees_data, payments_history, clock,
                       current_user>>

\* get_payment_requests
get_payment_requests(student_id) ==
    ListOf(read_payments_or_empty(parent_payments), student_id)

\* show_pending_requests: [req for req in requests if req['status'] == 'pending']
pending_requests(student_id) ==
    SelectSeq(get_payment_requests(student_id), LAMBDA req : req.status = "pending")

\* the payment form of show_payment_interface: the record goes to the same
\* file; a file that does not parse raises and nothing is written
PortalSubmit(student_id, amount, transaction_id) ==
    LET payment_data == [student_id |-> student_id,
                         amount |-> amount,
                         transaction_id |-> transaction_id,
                         status |-> "pending",
                         created_at |-> clock]
    IN  /\ StoreSize(parent_payments.data) < MaxRequests
        /\ parent_payments' =
             IF parent_payments.state = "corrupt"
             THEN parent_payments
             ELSE File(AppendTo(parent_payments.data, student_id, payment_data))
        /\ last' = [op |-> "portal_submit", student_id |-> student_id]
        /\ UNCHANGED <<unreadable, inflight, student_details, student_fees,
                       default_fees, fees_data, payments_history, clock,
                       current_user>>

-----------------------------------------------------------------------------
(* The two monthly payment forms: parent_dashboard.py and parent_portal.py *)

\* ', '.join(months)
RECURSIVE join(_)
join(months) ==
    IF months = << >> THEN ""
    ELSE IF Len(months) = 1 THEN months[1]
    ELSE months[1] \o ", " \o join(Tail(months))

\* f"Monthly Fee - {', '.join(selected_months)}"
monthly_description(selected_months) == "Monthly Fee - " \o join(selected_months)

\* what the parent picks in st.multiselect
MonthSelections ==
    {<<"JUNE">>, <<"JUNE", "JULY">>, <<"JULY", "JUNE">>, <<"APRIL", "MAY", "JUNE">>}

\* multiselect offers the unpaid months only
selectable(selected_months, unpaid_months) ==
    Range(selected_months) \subseteq Range(unpaid_months)

\* show_monthly_payment_section: the form of the parent dashboard, from the
\* lookups to the button that records the request
show_monthly_payment_section(student_id, selected_months) ==
    LET unpaid_months == get_unpaid_months(student_id)
        summary == get_student_fee_summary(student_id)
    IN  /\ ~IsNone(summary)
        /\ unpaid_months # << >>
        /\ selectable(selected_months, unpaid_months)
        /\ LET monthly_fee == summary.monthly_fee
               total_amount == monthly_fee * Len(selected_months)
           IN  record_payment_request(student_id, total_amount,
                                      monthly_description(selected_months),
                                      selected_months)

\* payment_data of show_payment_interface for payment_type "Monthly Fees"
portal_monthly_request(fee_details, selected_months, transaction_id) ==
    [student_id |-> fee_details.student_id,
     amount |-> fee_details.monthly_fee * Len(selected_months),
     transaction_id |-> transaction_id,
     description |-> monthly_description(selected_months),
     selected_months |-> fee_details.unpaid_months,
     status |-> "pending",
     created_at |-> clock]

\* show_payment_interface with "Monthly Fees" chosen: the form of the parent
\* portal, from the lookup to the write of data/parent_payments.json; a file
\* that does not parse raises inside the try and nothing is written
show_payment_interface(student_id, selected_months, transaction_id) ==
    LET fee_details == get_student_fee_details(student_id)
    IN  /\ ~IsNone(fee_details)
        /\ fee_details.unpaid_months # << >>
        /\ selectable(selected_months, fee_details.unpaid_months)
        /\ StoreSize(parent_payments.data) < MaxRequests
        /\ parent_payments' =
             IF parent_payments.state = "corrupt"
             THEN parent_payments
             ELSE File(AppendTo(parent_payments.data, student_id,
                                portal_monthly_request(fee_details, selected_months,
                                                       transaction_id)))
        /\ last' = [op |-> "show_payment_interface", student_id |-> student_id,
                    selected_months |-> selected_months]
        /\ UNCHANGED <<unreadable, inflight, student_details, student_fees,
                       default_fees, fees_data, payments_history, clock,
                       current_user>>

-----------------------------------------------------------------------------
(* record_payment_request run by two server sessions at once: the read of   *)
(* the file and the write of the file are separate steps of a call          *)

\* the sessions of the parents who submit at the same time
Sessions == {"A", "B"}

\* calls that have written the file
done_calls == {x \in Sessions : inflight[x].pc = "done"}

\* lines 143-165: ensure_databases_exist, json.load into payments, the request
\* ID and payment_data; the call now holds its own copy of the store
record_payment_request_load(session, student_id, amount, payment_type, selected_months) ==
    /\ inflight[session].pc = "idle"
    /\ parent_payments' =
         IF parent_payments.state = "missing" THEN File(<< >>) ELSE parent_payments
    /\ inflight' =
         [inflight EXCEPT ![session] =
            [pc |-> "loaded",
             student_id |-> student_id,
             payments |-> read_payments_or_empty(parent_payments),
             request_id |-> request_id_at(clock),
             payment_data |-> payment_request(request_id_at(clock), amount,
                                              payment_type, selected_months)]]
    /\ last' = [op |-> "record_payment_request_load", session |-> session]
    /\ UNCHANGED <<unreadable, student_details, student_fees, default_fees,
                   fees_data, payments_history, clock, current_user>>

dumped_payments_reread(call) ==
    AppendTo(read_payments_or_empty(parent_payments), call.student_id,
             call.payment_data)

\* lines 153-170: the call's copy with its request appended, as json.dump
\* writes it
dumped_payments(call) ==
    AppendTo(call.payments, call.student_id, call.payment_data)

\* lines 167-172: append to the copy, write the whole file, return the ID
record_payment_request_dump(session) ==
    LET call == inflight[session]
    IN  /\ call.pc = "loaded"
        /\ parent_payments' = File(dumped_payments(call))
        /\ inflight' =
             [inflight EXCEPT ![session] =
                [pc |-> "done",
                 student_id |-> call.student_id,
                 payments |-> call.payments,
                 payment_data |-> call.payment_data,
                 ret |-> call.request_id,
                 nth |-> Cardinality(done_calls) + 1]]
        /\ last' = [op |-> "record_payment_request", student_id |-> call.student_id,
                    ret |-> call.request_id]
        /\ UNCHANGED <<unreadable, student_details, student_fees, default_fees,
                       fees_data, payments_history, clock, current_user>>

-----------------------------------------------------------------------------
(* real_payment_system.py: a parent payment enters the ledger and the      *)
(* tracking store                                                          *)

\* payment_record of handle_parent_payment
payment_record(student_id, amount, transaction_id) ==
    [ID |-> student_id,
     Month |-> PARENT_PAYMENT,
     Monthly_Fee |-> Cell(amount),
     Annual_Charges |-> 0,
     Admission_Fee |-> 0,
     Received_Amount |-> Cell(amount),
     Transaction_ID |-> transaction_id,
     Date |-> clock]

\* payment_data of _save_parent_payment_record
tracking_record(student_id, amount, transaction_id) ==
    [student_id |-> student_id,
     amount |-> amount,
     transaction_id |-> transaction_id,
     payment_date |-> clock,
     status |-> "pending_verification"]

\* _save_parent_payment_record: a missing file is an empty store; a file that
\* does not parse raises, the exception is caught and nothing is written
save_parent_payment_record(student_id, amount, transaction_id) ==
    IF payments_history.state = "corrupt"
    THEN payments_history
    ELSE File(AppendTo(payments_history.data, student_id,
                       tracking_record(student_id, amount, transaction_id)))

\* handle_parent_payment: save_to_csv of the admin application appends the row
\* and reports success, or reports failure (csv_saved = FALSE)
HandleParentPayment(student_id, amount, transaction_id, csv_saved) ==
    /\ Len(fees_data) < MaxRows
    /\ StoreSize(payments_history.data) < MaxHistory
    /\ IF csv_saved
       THEN /\ fees_data' = Append(fees_data,
                                   payment_record(student_id, amount, transaction_id))
            /\ payments_history' =
                 save_parent_payment_record(student_id, amount, transaction_id)
       ELSE UNCHANGED <<fees_data, payments_history>>
    /\ last' = [op |-> "handle_parent_payment", student_id |-> student_id,
                transaction_id |-> transaction_id, ret |-> csv_saved]
    /\ UNCHANGED <<unreadable, inflight, student_details, student_fees,
                   default_fees, parent_payments, clock, current_user>>

-----------------------------------------------------------------------------
(* payment_notifications.py: the Verification Workflow *)

\* st.session_state.get('current_user', 'Admin')
session_user == IF current_user = "unset" THEN "Admin" ELSE current_user

\* index of the first record of the list that carries the transaction ID, 0
\* when there is none
first_match(student_payments, transaction_id) ==
    IF \E i \in DOMAIN student_payments :
          student_payments[i].transaction_id = transaction_id
    THEN CHOOSE i \in DOMAIN student_payments :
           /\ student_payments[i].transaction_id = transaction_id
           /\ \A j \in 1..(i - 1) :
                 student_payments[j].transaction_id # transaction_id
    ELSE 0

verified_stamp_redated(payment) ==
    [status |-> "verified", verified_at |-> clock, verified_by |-> session_user,
     payment_date |-> clock] @@ payment

verified_stamp(payment) ==
    [status |-> "verified", verified_at |-> clock, verified_by |-> session_user]
      @@ payment

rejected_stamp_requeue(payment) ==
    [status |-> "pending_verification", rejected_at |-> clock,
     rejected_by |-> session_user,
     rejection_reason |-> "Manual rejection by admin"] @@ payment

rejected_stamp_no_reason(payment) ==
    [status |-> "rejected", rejected_at |-> clock, rejected_by |-> session_user]
      @@ payment

rejected_stamp(payment) ==
    [status |-> "rejected", rejected_at |-> clock, rejected_by |-> session_user,
     rejection_reason |-> "Manual rejection by admin"] @@ payment

\* the two nested loops of verify_parent_payment: in every student's list the
\* first record with the transaction ID is stamped, "break" leaves the inner
\* loop only
verify_scan(payments, transaction_id) ==
    [s \in DOMAIN payments |->
       [key |-> payments[s].key,
        value |-> [i \in DOMAIN payments[s].value |->
                     IF i = first_match(payments[s].value, transaction_id)
                     THEN verified_stamp(payments[s].value[i])
                     ELSE payments[s].value[i]]]]

\* the same two loops in reject_parent_payment
reject_scan(payments, transaction_id) ==
    [s \in DOMAIN payments |->
       [key |-> payments[s].key,
        value |-> [i \in DOMAIN payments[s].value |->
                     IF i = first_match(payments[s].value, transaction_id)
                     THEN rejected_stamp(payments[s].value[i])
                     ELSE payments[s].value[i]]]]

\* return value of verify_parent_payment / reject_parent_payment: False when
\* the file is missing or does not parse, True otherwise
status_update_result(file) == file.state = "ok"

verify_parent_payment(transaction_id) ==
    /\ payments_history' =
         IF payments_history.state = "ok"
         THEN File(verify_scan(payments_history.data, transaction_id))
         ELSE payments_history
    /\ last' = [op |-> "verify", transaction_id |-> transaction_id,
                ret |-> status_update_result(payments_history)]
    /\ UNCHANGED <<unreadable, inflight, student_details, student_fees,
                   default_fees, fees_data, parent_payments, clock,
                   current_user>>

reject_parent_payment(transaction_id) ==
    /\ payments_history' =
         IF payments_history.state = "ok"
         THEN File(reject_scan(payments_history.data, transaction_id))
         ELSE payments_history
    /\ last' = [op |-> "reject", transaction_id |-> transaction_id,
                ret |-> status_update_result(payments_history)]
    /\ UNCHANGED <<unreadable, inflight, student_details, student_fees,
                   default_fees, fees_data, parent_payments, clock,
                   current_user>>

awaits_verification_or_rejected(payment) == payment.status # "verified"

\* if payment.get('status') == 'pending_verification'
awaits_verification(payment) == payment.status = "pending_verification"

\* pending_payments.sort(key=lambda x: x.get('payment_date', ''), reverse=True):
\* a stable sort, latest payment first
RECURSIVE sort_by_payment_date_reverse(_)
sort_by_payment_date_reverse(payments) ==
    IF payments = << >> THEN << >>
    ELSE LET latest == CHOOSE i \in DOMAIN payments :
                          /\ \A j \in DOMAIN payments :
                                payments[j].payment_date <= payments[i].payment_date
                          /\ \A j \in 1..(i - 1) :
                                payments[j].payment_date < payments[i].payment_date
             rest == [j \in 1..(Len(payments) - 1) |->
                        IF j < latest THEN payments[j] ELSE payments[j + 1]]
         IN  <<payments[latest]>> \o sort_by_payment_date_reverse(rest)

\* get_pending_parent_payments: [] for a missing or unreadable file
get_pending_parent_payments ==
    IF payments_history.state = "ok"
    THEN sort_by_payment_date_reverse(
           SelectSeq(Flatten(payments_history.data), awaits_verification))
    ELSE << >>

\* the statistics get_payment_stats starts from and falls back to
zero_stats ==
    [total_pending |-> 0, total_verified |-> 0, total_rejected |-> 0,
     pending_amount |-> 0, verified_amount |-> 0]

stats_add_default_status(stats, payment) ==
    LET status == Get(payment, "status", "pending")
        amount == Get(payment, "amount", 0)
    IN  IF status = "pending"
        THEN [stats EXCEPT !.total_pending = @ + 1, !.pending_amount = @ + amount]
        ELSE IF status = "verified"
        THEN [stats EXCEPT !.total_verified = @ + 1, !.verified_amount = @ + amount]
        ELSE IF status = "rejected"
        THEN [stats EXCEPT !.total_rejected = @ + 1]
        ELSE stats

\* the body of the loop of get_payment_stats: one payment added to the totals
stats_add(stats, payment) ==
    LET status == Get(payment, "status", "pending")
        amount == Get(payment, "amount", 0)
    IN  IF status = "pending_verification"
        THEN [stats EXCEPT !.total_pending = @ + 1, !.pending_amount = @ + amount]
        ELSE IF status = "verified"
        THEN [stats EXCEPT !.total_verified = @ + 1, !.verified_amount = @ + amount]
        ELSE IF status = "rejected"
        THEN [stats EXCEPT !.total_rejected = @ + 1]
        ELSE stats

\* the single pass over the records, in store order
RECURSIVE stats_pass(_, _)
stats_pass(stats, records) ==
    IF records = << >> THEN stats
    ELSE stats_pass(stats_add(stats, Head(records)), Tail(records))

\* get_payment_stats: zeros for a missing or unreadable file
get_payment_stats ==
    IF payments_history.state = "ok"
    THEN stats_pass(zero_stats, Flatten(payments_history.data))
    ELSE zero_stats

\* a second passes
Tick ==
    /\ clock < MaxClock
    /\ clock' = clock + 1
    /\ last' = [op |-> "tick"]
    /\ UNCHANGED <<unreadable, inflight, student_details, student_fees,
                   default_fees, fees_data, parent_payments, payments_history,
                   current_user>>

-----------------------------------------------------------------------------
(* Specification of the ledger and the fee schedules *)

\* the fee schedules a run starts from
Schedule(m, a, y) == [monthly_fee |-> m, admission_fee |-> a, annual_fee |-> y]

Info(name) == [student_name |-> name, name |-> name]

InitFiles ==
    /\ parent_payments = MissingFile
    /\ payments_history = MissingFile
    /\ clock = 0
    /\ current_user = "unset"
    /\ last = [op |-> "none"]
    /\ unreadable = {}
    /\ inflight = << >>

InitFees ==
    /\ student_details \in
         { ("S1" :> Info("Ali") @@ "S2" :> Info("Sara")),
           ("S1" :> Info("Ali")) }
    /\ student_fees \in
         { ("S1" :> Schedule(200, 0, 500)),
           ("S1" :> Schedule(0, 0, 0) @@ "S2" :> Schedule(3000, 10000, 3500)) }
    /\ default_fees \in
         { << >>,
           [monthly_fee |-> 2500, annual_charges |-> 3000, admission_fee |-> 8000] }
    /\ fees_data = << >>
    /\ InitFiles

\* the amounts a ledger row of the model carries
RowMonths == {"APRIL", "JANUARY", PARENT_PAYMENT}

LedgerRows ==
    [ID : {"S1"}, Month : RowMonths,
     Monthly_Fee : {Cell(0), Cell(3000)},
     Annual_Charges : {0, 3500},
     Admission_Fee : {0, 10000},
     Received_Amount : {Cell(0), Cell(3000)},
     Transaction_ID : {""}]
    \cup
    [ID : {"S2"}, Month : {"APRIL"},
     Monthly_Fee : {Cell(3000)},
     Annual_Charges : {0},
     Admission_Fee : {0},
     Received_Amount : {Cell(0), Cell(3000)},
     Transaction_ID : {""}]

\* the admin application appends a row to the ledger; rows are dated in the
\* order they are entered
AdminEntry(row) ==
    /\ Len(fees_data) < MaxRows
    /\ fees_data' = Append(fees_data, row @@ [Date |-> Len(fees_data) + 1])
    /\ last' = [op |-> "admin_entry"]
    /\ UNCHANGED <<unreadable, inflight, student_details, student_fees,
                   default_fees, parent_payments, payments_history, clock,
                   current_user>>

NextFees == \E row \in LedgerRows : AdminEntry(row)

SpecFees == InitFees /\ [][NextFees]_vars

-----------------------------------------------------------------------------
(* Specification of the verification workflow *)

Init ==
    /\ student_details = ("S1" :> Info("Ali") @@ "S2" :> Info("Sara"))
    /\ student_fees = ("S1" :> Schedule(3000, 10000, 3500))
    /\ default_fees = << >>
    /\ fees_data = << >>
    /\ parent_payments = MissingFile
    /\ payments_history = MissingFile
    /\ clock = 0
    /\ current_user \in Users
    /\ last = [op |-> "none"]
    /\ unreadable = {}
    /\ inflight = << >>

Next ==
    \/ \E p \in ParentPayments, transaction_id \in TransactionIds,
          csv_saved \in BOOLEAN :
          HandleParentPayment(p.student_id, p.amount, transaction_id, csv_saved)
    \/ \E transaction_id \in TransactionIds : verify_parent_payment(transaction_id)
    \/ \E transaction_id \in TransactionIds : reject_parent_payment(transaction_id)
    \/ Tick

Spec == Init /\ [][Next]_vars

-----------------------------------------------------------------------------
(* Specification of the payment request store *)

InitStore ==
    /\ student_details = ("S1" :> Info("Ali") @@ "S2" :> Info("Sara"))
    /\ student_fees = ("S1" :> Schedule(3000, 10000, 3500))
    /\ default_fees = << >>
    /\ fees_data = << >>
    /\ parent_payments \in {MissingFile, CorruptFile}
    /\ payments_history = MissingFile
    /\ clock = 0
    /\ current_user = "unset"
    /\ last = [op |-> "none"]
    /\ unreadable = {}
    /\ inflight = << >>

NextStore ==
    \/ \E p \in ParentPayments, k \in RequestKinds :
          record_payment_request(p.student_id, p.amount, k.payment_type,
                                 k.selected_months)
    \/ \E p \in ParentPayments, transaction_id \in TransactionIds :
          PortalSubmit(p.student_id, p.amount, transaction_id)
    \/ Tick

SpecStore == InitStore /\ [][NextStore]_vars

-----------------------------------------------------------------------------
(* Specification of the two monthly payment forms *)

\* ledgers the forms start from: nothing paid, or APRIL and MAY paid
FormLedgers ==
    {<< >>,
     <<[ID |-> "S1", Month |-> "APRIL", Monthly_Fee |-> Cell(3000),
        Annual_Charges |-> 0, Admission_Fee |-> 0,
        Received_Amount |-> Cell(3000), Transaction_ID |-> "", Date |-> 1],
       [ID |-> "S1", Month |-> "MAY", Monthly_Fee |-> Cell(3000),
        Annual_Charges |-> 0, Admission_Fee |-> 0,
        Received_Amount |-> Cell(3000), Transaction_ID |-> "", Date |-> 2]>>}

InitForms ==
    /\ student_details = ("S1" :> Info("Ali") @@ "S2" :> Info("Sara"))
    /\ student_fees = ("S1" :> Schedule(3000, 10000, 3500))
    /\ default_fees = << >>
    /\ fees_data \in FormLedgers
    /\ parent_payments = MissingFile
    /\ payments_history = MissingFile
    /\ clock = 0
    /\ current_user = "unset"
    /\ last = [op |-> "none"]
    /\ unreadable = {}
    /\ inflight = << >>

NextForms ==
    \/ \E student_id \in Students, selected_months \in MonthSelections :
          show_monthly_payment_section(student_id, selected_months)
    \/ \E student_id \in Students, selected_months \in MonthSelections,
          transaction_id \in TransactionIds :
          show_payment_interface(student_id, selected_months, transaction_id)
    \/ Tick

SpecForms == InitForms /\ [][NextForms]_vars

-----------------------------------------------------------------------------
(* Specification of two concurrent submissions *)

InitRace ==
    /\ student_details = ("S1" :> Info("Ali") @@ "S2" :> Info("Sara"))
    /\ student_fees = ("S1" :> Schedule(3000, 10000, 3500))
    /\ default_fees = << >>
    /\ fees_data = << >>
    /\ parent_payments \in {MissingFile, CorruptFile}
    /\ payments_history = MissingFile
    /\ clock = 0
    /\ current_user = "unset"
    /\ last = [op |-> "none"]
    /\ unreadable = {}
    /\ inflight = [session \in Sessions |-> [pc |-> "idle"]]

NextRace ==
    \/ \E session \in Sessions, p \in ParentPayments, k \in RequestKinds :
          record_payment_request_load(session, p.student_id, p.amount,
                                      k.payment_type, k.selected_months)
    \/ \E session \in Sessions : record_payment_request_dump(session)
    \/ Tick

SpecRace == InitRace /\ [][NextRace]_vars

-----------------------------------------------------------------------------
(* Specification of damaged stores: files that do not parse and ledger rows *)
(* whose amount cells do not parse                                          *)

\* rows as the ledger file can hold them: an amount cell is text
DamagedRows ==
    [ID : Students, Month : {"APRIL", "MAY"},
     Monthly_Fee : {Cell(3000), BadCell},
     Annual_Charges : {0},
     Admission_Fee : {0},
     Received_Amount : {Cell(3000), BadCell},
     Transaction_ID : {""}]

InitDamaged ==
    /\ student_details = ("S1" :> Info("Ali") @@ "S2" :> Info("Sara"))
    /\ student_fees = ("S1" :> Schedule(3000, 10000, 3500))
    /\ default_fees = << >>
    /\ fees_data = << >>
    /\ parent_payments \in {MissingFile, CorruptFile}
    /\ payments_history = MissingFile
    /\ clock = 0
    /\ current_user = "unset"
    /\ last = [op |-> "none"]
    /\ unreadable \in SUBSET {"student_details", "student_fees"}
    /\ inflight = << >>

NextDamaged == \E row \in DamagedRows : AdminEntry(row)

SpecDamaged == InitDamaged /\ [][NextDamaged]_vars

-----------------------------------------------------------------------------
(* Specification of the receipts of the ledger: rows of two students, for   *)
(* a month or for the annual charges, with and without an amount received   *)

ReceiptRows ==
    [ID : Students, Month : {"APRIL"},
     Monthly_Fee : {Cell(3000)},
     Annual_Charges : {0},
     Admission_Fee : {0},
     Received_Amount : {Cell(0), Cell(3000), BadCell},
     Transaction_ID : {""}]
    \cup
    [ID : Students, Month : {"ANNUAL"},
     Monthly_Fee : {Cell(0)},
     Annual_Charges : {3500},
     Admission_Fee : {0},
     Received_Amount : {Cell(0), Cell(3500)},
     Transaction_ID : {""}]

\* the admin application appends a receipt
ReceiptEntry(row) ==
    /\ Len(fees_data) < MaxReceipts
    /\ fees_data' = Append(fees_data, row @@ [Date |-> Len(fees_data) + 1])
    /\ last' = [op |-> "admin_entry"]
    /\ UNCHANGED <<unreadable, inflight, student_details, student_fees,
                   default_fees, parent_payments, payments_history, clock,
                   current_user>>

InitReceipts ==
    /\ student_details = ("S1" :> Info("Ali") @@ "S2" :> Info("Sara"))
    /\ student_fees = ("S1" :> Schedule(3000, 10000, 3500))
    /\ default_fees = << >>
    /\ fees_data = << >>
    /\ InitFiles

NextReceipts == \E row \in ReceiptRows : ReceiptEntry(row)

SpecReceipts == InitReceipts /\ [][NextReceipts]_vars

\* the receipts entered over each of the fee schedules of InitFees
SpecSchedules == InitFees /\ [][NextReceipts]_vars

-----------------------------------------------------------------------------
(* Specification of the verification workflow over a tracking store that    *)
(* may not parse                                                            *)

InitTracking ==
    /\ student_details = ("S1" :> Info("Ali") @@ "S2" :> Info("Sara"))
    /\ student_fees = ("S1" :> Schedule(3000, 10000, 3500))
    /\ default_fees = << >>
    /\ fees_data = << >>
    /\ parent_payments = MissingFile
    /\ payments_history \in {MissingFile, CorruptFile}
    /\ clock = 0
    /\ current_user = "clerk"
    /\ last = [op |-> "none"]
    /\ unreadable = {}
    /\ inflight = << >>

SpecTracking == InitTracking /\ [][Next]_vars

-----------------------------------------------------------------------------
(* Specification of the requests of the parents under the admin workflow:  *)
(* parents submit, and the admin keeps verifying and rejecting every        *)
(* transaction ID                                                           *)

\* parent_payments_history.json at the start: missing, or holding a payment
\* that handle_parent_payment has tracked
InitResolve ==
    /\ student_details = ("S1" :> Info("Ali") @@ "S2" :> Info("Sara"))
    /\ student_fees = ("S1" :> Schedule(3000, 10000, 3500))
    /\ default_fees = << >>
    /\ fees_data = << >>
    /\ parent_payments = MissingFile
    /\ clock = 0
    /\ payments_history \in
         {MissingFile,
          File(<<[key |-> "S1", value |-> <<tracking_record("S1", 3000, "T1")>>]>>)}
    /\ current_user = "clerk"
    /\ last = [op |-> "none"]
    /\ unreadable = {}
    /\ inflight = << >>

NextResolve ==
    \/ \E p \in ParentPayments, k \in RequestKinds :
          record_payment_request(p.student_id, p.amount, k.payment_type,
                                 k.selected_months)
    \/ \E p \in ParentPayments, transaction_id \in TransactionIds :
          PortalSubmit(p.student_id, p.amount, transaction_id)
    \/ \E transaction_id \in TransactionIds : verify_parent_payment(transaction_id)
    \/ \E transaction_id \in TransactionIds : reject_parent_payment(transaction_id)

\* the admin page is rerun on every interaction: each button keeps being
\* pressed as long as the press has an effect
FairResolve ==
    \A transaction_id \in TransactionIds :
       /\ WF_vars(verify_parent_payment(transaction_id))
       /\ WF_vars(reject_parent_payment(transaction_id))

SpecResolve == InitResolve /\ [][NextResolve]_vars /\ FairResolve

-----------------------------------------------------------------------------
(* Properties of the fee summaries *)

\* C1: for every student, fee schedule and ledger, both summaries report a
\* balance due that is never negative and equals max(0, total due - total
\* received): the difference when it is positive, 0 when the payments reach
\* or exceed the total.
C1_BalanceDueClamped ==
    \A s \in Students :
       LET summary == get_student_fee_summary(s)
           details == get_student_fee_details(s)
       IN  /\ ~IsNone(summary) =>
                /\ summary.balance_due >= 0
                /\ summary.balance_due >=
                     summary.total_yearly_due - summary.total_received
                /\ summary.balance_due \in
                     {0, summary.total_yearly_due - summary.total_received}
           /\ ~IsNone(details) =>
                /\ details.balance_due >= 0
                /\ details.balance_due >= details.total_due - details.total_received
                /\ details.balance_due \in
                     {0, details.total_due - details.total_received}

\* a student with a positive total due has paid more than it, in both summaries
C1_OverpaidStudent ==
    \E s \in Students :
       LET summary == get_student_fee_summary(s)
           details == get_student_fee_details(s)
       IN  /\ ~IsNone(summary) /\ ~IsNone(details)
           /\ summary.total_yearly_due > 0
           /\ summary.total_received > summary.total_yearly_due
           /\ details.total_due > 0
           /\ details.total_received > details.total_due
           /\ last.op = "admin_entry"

\* C10: for every student, the total due of both summaries is
\* monthly fee * 12 + admission fee + annual fee, whatever the ledger records.
C10_TotalDueIndependentOfLedger ==
    \A s \in Students :
       LET summary == get_student_fee_summary(s)
           details == get_student_fee_details(s)
       IN  /\ ~IsNone(summary) =>
                summary.total_yearly_due =
                  summary.monthly_fee * 12 + summary.admission_fee + summary.annual_fee
           /\ ~IsNone(details) =>
                details.total_due =
                  details.monthly_fee * 12 + details.admission_fee + details.annual_fee

\* the set of months a resolver reports as paid, and as unpaid
PaidSet(paid_months) == {paid_months[i].month : i \in DOMAIN paid_months}

Partitions(paid, unpaid, calendar) ==
    /\ paid \cup unpaid = calendar
    /\ paid \cap unpaid = {}

\* C9: for every student and ledger, the paid months and the unpaid months of
\* both resolvers partition the 12-month calendar: each calendar month is in
\* exactly one of the two, and neither holds anything else.
C9_MonthsPartitionCalendar ==
    \A s \in Students :
       /\ Partitions(PaidSet(get_paid_months(s)), Range(get_unpaid_months(s)),
                     Range(all_months))
       /\ LET details == get_student_fee_details(s)
          IN  ~IsNone(details) =>
                Partitions(PaidSet(details.paid_months), Range(details.unpaid_months),
                           Range(all_months_portal))

\* C11: for every student whose total due is 0, the percentage paid is 0
\* whatever amount has been received, in both summaries.
C11_PercentPaidZeroWhenNothingDue ==
    \A s \in Students :
       LET summary == get_student_fee_summary(s)
           details == get_student_fee_details(s)
       IN  /\ (~IsNone(summary) /\ summary.total_yearly_due = 0)
                => summary.percentage_paid = 0
           /\ (~IsNone(details) /\ details.total_due = 0)
                => details.percentage_paid = 0

\* a student with nothing due has paid something, in both summaries
C11_PaidWithNothingDue ==
    \E s \in Students :
       LET summary == get_student_fee_summary(s)
           details == get_student_fee_details(s)
       IN  /\ ~IsNone(summary) /\ ~IsNone(details)
           /\ summary.total_yearly_due = 0 /\ summary.total_received > 0
           /\ details.total_due = 0 /\ details.total_received > 0

C13_DetailsFallBackToDefaults ==
    \A s \in Students :
       LET details == get_student_fee_details(s)
       IN  /\ s \notin DOMAIN student_details => IsNone(details)
           /\ (s \in DOMAIN student_details /\ s \notin DOMAIN student_fees) =>
                /\ ~IsNone(details)
                /\ details.monthly_fee =
                     IF "monthly_fee" \in DOMAIN default_fees
                     THEN default_fees.monthly_fee ELSE 3000
                /\ details.annual_fee =
                     IF "annual_charges" \in DOMAIN default_fees
                     THEN default_fees.annual_charges ELSE 3500
                /\ details.admission_fee =
                     IF "admission_fee" \in DOMAIN default_fees
                     THEN default_fees.admission_fee ELSE 10000

\* a student with an identity record, no fee schedule and no default-fee
\* record gets the literals
C13_LiteralFallback ==
    \E s \in Students :
       /\ s \in DOMAIN student_details
       /\ s \notin DOMAIN student_fees
       /\ default_fees = << >>
       /\ get_student_fee_details(s).monthly_fee = 3000
       /\ get_student_fee_details(s).total_due > 0
       /\ fees_data # << >>

-----------------------------------------------------------------------------
(* Properties of the verification workflow *)

PendingStatuses == {"pending", "pending_verification"}

\* the positions of a store: entry of a student, index in the student's list
Positions(payments) ==
    UNION {{<<s, i>> : i \in DOMAIN payments[s].value} : s \in DOMAIN payments}

At(payments, pos) == payments[pos[1]].value[pos[2]]

\* some record of the store carries the transaction ID
Matches(payments, transaction_id) ==
    \E pos \in Positions(payments) :
       At(payments, pos).transaction_id = transaction_id

\* C2: under every sequence of submissions, verifications and rejections, a
\* request whose status is no longer pending or pending_verification never
\* has one of these two statuses again.
C2_NeverBackToPending ==
    [][\A pos \in Positions(payments_history.data) :
          At(payments_history.data, pos).status \notin PendingStatuses
            => At(payments_history'.data, pos).status \notin PendingStatuses]_vars

\* a request that was verified and rejected: a later call has acted on a
\* request that had left pending_verification
C2_ResolvedTwice ==
    /\ last.op \in {"verify", "reject"}
    /\ \E pos \in Positions(payments_history.data) :
          LET payment == At(payments_history.data, pos)
          IN  /\ payment.transaction_id = last.transaction_id
              /\ {"verified_at", "rejected_at"} \subseteq DOMAIN payment
              /\ payment.status \notin PendingStatuses

\* C3: verified and rejected are terminal: a request that is verified stays
\* verified and a request that is rejected stays rejected under every later
\* verify and reject call.
C3_TerminalStatuses ==
    [][\A pos \in Positions(payments_history.data) :
          LET status == At(payments_history.data, pos).status
          IN  status \in {"verified", "rejected"}
                => At(payments_history'.data, pos).status = status]_vars

\* C4: verifying a pending request sets its status to verified, and a second
\* verify call with the same transaction ID, which finds the request verified
\* and no pending request to match, returns false and leaves the store as it
\* is.
C4_SecondVerifyIsNoOp ==
    [][last'.op = "verify" =>
         LET t == last'.transaction_id
             matching == {pos \in Positions(payments_history.data) :
                            At(payments_history.data, pos).transaction_id = t}
             pending == {pos \in matching :
                           At(payments_history.data, pos).status
                             = "pending_verification"}
             verified == {pos \in matching :
                            At(payments_history.data, pos).status = "verified"}
         IN  /\ (pending # {} /\ pending = matching) =>
                  \E pos \in pending :
                     At(payments_history'.data, pos).status = "verified"
             /\ (pending = {} /\ verified # {}) =>
                  /\ last'.ret = FALSE
                  /\ payments_history' = payments_history]_vars

\* C5: verify returns true exactly when the store file exists and some
\* request carries the transaction ID; when it returns false the store is
\* unchanged.
C5_VerifyFalseWithoutMatch ==
    [][last'.op = "verify" =>
         /\ last'.ret = (/\ payments_history.state = "ok"
                         /\ Matches(payments_history.data, last'.transaction_id))
         /\ last'.ret = FALSE => payments_history' = payments_history]_vars

\* index in store order of the first record with the transaction ID
FirstInStoreOrder(records, transaction_id) ==
    CHOOSE i \in DOMAIN records :
       /\ records[i].transaction_id = transaction_id
       /\ \A j \in 1..(i - 1) : records[j].transaction_id # transaction_id

\* C6: when two or more requests share a transaction ID, a verify call sets
\* the first of them in store order to verified and leaves the status of
\* every other record as it was.
C6_VerifyFlipsFirstMatchOnly ==
    [][last'.op = "verify" =>
         LET t == last'.transaction_id
             before == Flatten(payments_history.data)
             after == Flatten(payments_history'.data)
         IN  Cardinality({i \in DOMAIN before : before[i].transaction_id = t}) >= 2
               => /\ after[FirstInStoreOrder(before, t)].status = "verified"
                  /\ \A i \in DOMAIN before :
                        i # FirstInStoreOrder(before, t)
                          => after[i].status = before[i].status]_vars

\* C7: after a reject call with a matching transaction ID, the matched record
\* has status rejected and carries the rejector's identity, the time of the
\* rejection and a rejection reason that is not empty.
C7_RejectStampsRecord ==
    last.op = "reject" =>
       \A s \in DOMAIN payments_history.data :
          LET student_payments == payments_history.data[s].value
              i == first_match(student_payments, last.transaction_id)
          IN  i # 0 =>
                /\ student_payments[i].status = "rejected"
                /\ {"rejected_by", "rejected_at", "rejection_reason"}
                     \subseteq DOMAIN student_payments[i]
                /\ student_payments[i].rejected_by \in {"Admin", "clerk"}
                /\ student_payments[i].rejected_at = clock
                /\ student_payments[i].rejection_reason # ""

\* a reject call has matched a record
C7_RejectedOne ==
    /\ last.op = "reject"
    /\ last.ret = TRUE
    /\ \E pos \in Positions(payments_history.data) :
          /\ At(payments_history.data, pos).transaction_id = last.transaction_id
          /\ At(payments_history.data, pos).status = "rejected"

-----------------------------------------------------------------------------
(* Properties of the payment request store *)

\* C8: right after record_payment_request has returned a request ID, the
\* pending requests listed for that student contain a request with that ID
\* and status pending, whatever the store held before.
C8_CreatedRequestIsListedPending ==
    last.op = "record_payment_request" =>
       \E i \in DOMAIN pending_requests(last.student_id) :
          LET req == pending_requests(last.student_id)[i]
          IN  /\ "request_id" \in DOMAIN req
              /\ req.request_id = last.ret
              /\ req.status = "pending"

\* a request was recorded for a student whose list already held a request
C8_CreatedAfterOthers ==
    /\ last.op = "record_payment_request"
    /\ Len(get_payment_requests(last.student_id)) >= 2

\* C19: get_payment_stats returns, over all students, the number of records
\* with each status and the sums of the amounts of the pending and of the
\* verified ones, and the three counts add up to the size of the store.
RECURSIVE SumOver(_, _)
SumOver(records, positions) ==
    IF positions = {} THEN 0
    ELSE LET i == CHOOSE j \in positions : TRUE
         IN  records[i].amount + SumOver(records, positions \ {i})

WithStatus(records, status) == {i \in DOMAIN records : records[i].status = status}

C19_StatsCountEveryRequest ==
    LET records == Flatten(payments_history.data)
        stats == get_payment_stats
    IN  /\ stats.total_pending = Cardinality(WithStatus(records, "pending_verification"))
        /\ stats.total_verified = Cardinality(WithStatus(records, "verified"))
        /\ stats.total_rejected = Cardinality(WithStatus(records, "rejected"))
        /\ stats.pending_amount = SumOver(records, WithStatus(records, "pending_verification"))
        /\ stats.verified_amount = SumOver(records, WithStatus(records, "verified"))
        /\ stats.total_pending + stats.total_verified + stats.total_rejected
             = StoreSize(payments_history.data)

\* two students' payments have been submitted, one is verified and the other
\* is still pending
C19_PendingAndVerified ==
    /\ get_payment_stats.total_pending = 1
    /\ get_payment_stats.total_verified = 1
    /\ get_payment_stats.pending_amount # get_payment_stats.verified_amount
    /\ Len(payments_history.data) = 2

\* C15: no parent payment whose tracking record is still pending_verification
\* or has been rejected has a row in the transaction ledger.
C15_LedgerRowOnlyWhenVerified ==
    \A pos \in Positions(payments_history.data) :
       LET payment == At(payments_history.data, pos)
       IN  payment.status \in {"pending_verification", "rejected"} =>
             ~\E i \in DOMAIN fees_data :
                 /\ fees_data[i].Month = PARENT_PAYMENT
                 /\ fees_data[i].ID = payment.student_id
                 /\ fees_data[i].Transaction_ID = payment.transaction_id

\* C16: no two requests of the request store carry the same request ID.
C16_RequestIdsUnique ==
    LET requests == Flatten(parent_payments.data)
    IN  \A i, j \in DOMAIN requests :
           ("request_id" \in DOMAIN requests[i]
              /\ "request_id" \in DOMAIN requests[j]
              /\ requests[i].request_id = requests[j].request_id) => i = j

\* C20: a monthly-fee request stores the monthly fee times the number of its
\* target months as amount and a description naming exactly its target
\* months, the selected ones, whichever form created it.
C20_MonthlyRequestMatchesSelection ==
    \A pos \in Positions(parent_payments.data) :
       LET request == At(parent_payments.data, pos)
           student_id == parent_payments.data[pos[1]].key
           description == IF "description" \in DOMAIN request
                          THEN request.description ELSE request.payment_type
       IN  /\ request.amount
                = student_fees[student_id].monthly_fee * Len(request.selected_months)
           /\ description = monthly_description(request.selected_months)

\* C14: when two submissions both read the store before either writes it and
\* then both write, both calls return a request ID and the store is the
\* second writer's image: the copy both read plus the second writer's request
\* only, the first writer's request is lost.
C14_SecondWriterDiscardsFirst ==
    \A a, b \in Sessions :
       (/\ a \in done_calls /\ b \in done_calls
        /\ inflight[a].nth < inflight[b].nth
        /\ inflight[a].payments = inflight[b].payments) =>
          /\ inflight[a].ret = inflight[a].payment_data.request_id
          /\ inflight[b].ret = inflight[b].payment_data.request_id
          /\ parent_payments.data
               = AppendTo(inflight[b].payments, inflight[b].student_id,
                          inflight[b].payment_data)
          /\ StoreSize(parent_payments.data)
               = StoreSize(inflight[a].payments) + 1

\* read, read, write, write by two calls with different requests: the first
\* writer's request is nowhere in the store
C14_FirstRequestLost ==
    \E a, b \in Sessions :
       /\ a \in done_calls /\ b \in done_calls
       /\ inflight[a].nth < inflight[b].nth
       /\ inflight[a].payments = inflight[b].payments
       /\ inflight[a].student_id # inflight[b].student_id
       /\ ~HasKey(parent_payments.data, inflight[a].student_id)

\* C17: no read operation raises on malformed data: with a ledger row of the
\* student whose Received Amount or Monthly Fee does not parse, the summary,
\* the paid months, the unpaid months and the history are still returned.
C17_ReadsSurviveMalformedAmounts ==
    \A s \in Students :
       (\E i \in DOMAIN fees_data :
           /\ fees_data[i].ID = s
           /\ ~fees_data[i].Received_Amount.ok \/ ~fees_data[i].Monthly_Fee.ok)
         => /\ ~get_paid_months_raises(s)
            /\ ~get_unpaid_months_raises(s)
            /\ unreadable = {} => ~get_student_fee_summary_raises
            /\ Len(get_payment_history(s)) <= Len(RowsOf(s))

\* C18: listing a student's payment requests returns a list, the empty one for
\* a missing or corrupt store, and the identity and fee-schedule lookups do
\* not raise on a file that is missing or does not parse.
C18_LookupsNeverRaise ==
    /\ \A s \in Students :
          parent_payments.state # "ok" => get_payment_requests(s) = << >>
    /\ ~get_student_details_raises
    /\ ~get_student_fees_raises

\* C21: a calendar month is reported as paid for a student exactly when the
\* ledger has a row of that student and month with Monthly Fee > 0, each paid
\* month is reported once, and with the amount and the date of the first such
\* row in file order; by get_paid_months and by get_student_fee_details.
PaidRows(student_id, month) ==
    SelectSeq(RowsOf(student_id),
              LAMBDA row : row.Month = month /\ row.Monthly_Fee.ok
                             /\ row.Monthly_Fee.n > 0)

ReportedOnceAsFirstRow(paid_months, student_id, month) ==
    LET entries == {i \in DOMAIN paid_months : paid_months[i].month = month}
        rows == PaidRows(student_id, month)
    IN  /\ entries # {} <=> rows # << >>
        /\ Cardinality(entries) <= 1
        /\ \A i \in entries :
              /\ paid_months[i].amount = rows[1].Monthly_Fee.n
              /\ paid_months[i].date = rows[1].Date

C21_PaidMonthReportedOnce ==
    \A s \in Students, month \in Range(all_months) :
       /\ ReportedOnceAsFirstRow(get_paid_months(s), s, month)
       /\ ~IsNone(get_student_fee_details(s)) =>
            ReportedOnceAsFirstRow(get_student_fee_details(s).paid_months, s, month)

\* C22: the unpaid list has no duplicates and keeps the calendar order
\* whatever the order of the ledger rows, and the resolvers use one and the
\* same calendar order: two months unpaid for both get_unpaid_months and
\* get_student_fee_details come in the same order in both lists.
IndexIn(list, month) == CHOOSE i \in DOMAIN list : list[i] = month

Before(list, a, b) == IndexIn(list, a) < IndexIn(list, b)

NoDuplicates(list) == \A i, j \in DOMAIN list : list[i] = list[j] => i = j

C22_UnpaidInOneCalendarOrder ==
    \A s \in Students :
       LET unpaid == get_unpaid_months(s)
           details == get_student_fee_details(s)
       IN  /\ NoDuplicates(unpaid)
           /\ \A a, b \in Range(unpaid) :
                 Before(unpaid, a, b) <=> Before(all_months, a, b)
           /\ ~IsNone(details) =>
                /\ NoDuplicates(details.unpaid_months)
                /\ \A a, b \in Range(details.unpaid_months) :
                      Before(details.unpaid_months, a, b)
                        <=> Before(all_months_portal, a, b)
                /\ \A a, b \in Range(unpaid) \cap Range(details.unpaid_months) :
                      Before(unpaid, a, b) <=> Before(details.unpaid_months, a, b)

\* C23: the total received of a student is the sum of the Received Amount of
\* exactly the ledger rows with the student's ID, whatever fee the row is for,
\* and the history lists exactly the student's rows with an amount above 0.
RECURSIVE ReceivedOver(_)
ReceivedOver(positions) ==
    IF positions = {} THEN 0
    ELSE LET i == CHOOSE j \in positions : TRUE
         IN  fees_data[i].Received_Amount.n + ReceivedOver(positions \ {i})

C23_TotalReceivedIsSumOfOwnRows ==
    \A s \in Students :
       LET own == {i \in DOMAIN fees_data :
                     fees_data[i].ID = s /\ fees_data[i].Received_Amount.ok}
           summary == get_student_fee_summary(s)
           history == get_payment_history(s)
       IN  /\ received_of(s) = ReceivedOver(own)
           /\ ~IsNone(summary) => summary.total_received = ReceivedOver(own)
           /\ \A i \in DOMAIN history : history[i].amount > 0
           /\ Len(history)
                = Cardinality({i \in own : fees_data[i].Received_Amount.n > 0})

\* a student has paid an annual-charges row and has a row with amount 0, and
\* another student has paid too
C23_OwnAndForeignRows ==
    /\ \E i, j, k \in DOMAIN fees_data :
          /\ fees_data[i].ID = "S1" /\ fees_data[i].Received_Amount.n > 0
          /\ fees_data[i].Monthly_Fee.n = 0 /\ fees_data[i].Annual_Charges > 0
          /\ fees_data[j].ID = "S1" /\ fees_data[j].Received_Amount = Cell(0)
          /\ fees_data[k].ID = "S2" /\ fees_data[k].Received_Amount.n > 0
    /\ get_student_fee_summary("S1").total_received = 3500
    /\ Len(get_payment_history("S1")) = 1

\* C24: on a store that reads, record_payment_request adds exactly one request,
\* the one whose ID it returns, at the end of the student's list; the requests
\* the student had keep their order and fields, every other student's list is
\* unchanged, and the written store is the previous store plus that record.
C24_RecordAppendsOneRequest ==
    [][(last'.op = "record_payment_request" /\ parent_payments.state # "corrupt") =>
         LET before == parent_payments.data
             after == parent_payments'.data
             student_id == last'.student_id
             requests == ListOf(after, student_id)
         IN  /\ parent_payments'.state = "ok"
             /\ Len(requests) = Len(ListOf(before, student_id)) + 1
             /\ SubSeq(requests, 1, Len(requests) - 1) = ListOf(before, student_id)
             /\ requests[Len(requests)].request_id = last'.ret
             /\ \A other \in Students \ {student_id} :
                   /\ ListOf(after, other) = ListOf(before, other)
                   /\ HasKey(after, other) <=> HasKey(before, other)
             /\ \A i \in DOMAIN before : after[i].key = before[i].key
             /\ StoreSize(after) = StoreSize(before) + 1]_vars

\* a request was recorded for a student who had one, a form submission,
\* stored already
C24_AppendedAfterFormSubmission ==
    /\ last.op = "record_payment_request"
    /\ Len(get_payment_requests(last.student_id)) = 2
    /\ "request_id" \notin DOMAIN get_payment_requests(last.student_id)[1]

\* C25: verify and reject add no request, remove none and reorder no list;
\* student, amount, transaction ID and creation time of every request are the
\* same after the call as before it, no field is dropped, and a request with
\* another transaction ID is not touched at all.
C25_StatusUpdateKeepsOtherFields ==
    [][last'.op \in {"verify", "reject"} =>
         LET before == payments_history.data
             after == payments_history'.data
         IN  /\ payments_history'.state = payments_history.state
             /\ Len(after) = Len(before)
             /\ \A s \in DOMAIN before :
                   /\ after[s].key = before[s].key
                   /\ Len(after[s].value) = Len(before[s].value)
                   /\ \A i \in DOMAIN before[s].value :
                         LET old == before[s].value[i]
                             new == after[s].value[i]
                         IN  /\ new.student_id = old.student_id
                             /\ new.amount = old.amount
                             /\ new.transaction_id = old.transaction_id
                             /\ new.payment_date = old.payment_date
                             /\ DOMAIN old \subseteq DOMAIN new
                             /\ old.transaction_id # last'.transaction_id
                                  => new = old]_vars

\* a second after its submission a payment has been verified while another
\* payment, with another transaction ID, is still pending
C25_VerifiedNextToPending ==
    /\ last.op = "verify"
    /\ \E pos \in Positions(payments_history.data) :
          LET payment == At(payments_history.data, pos)
          IN  /\ payment.transaction_id = last.transaction_id
              /\ payment.status = "verified"
              /\ payment.verified_at > payment.payment_date
    /\ \E pos \in Positions(payments_history.data) :
          LET payment == At(payments_history.data, pos)
          IN  /\ payment.transaction_id # last.transaction_id
              /\ payment.status = "pending_verification"

\* C26: for a student for whom both are returned, get_student_fee_summary and
\* get_student_fee_details give the same total due, total received and
\* balance due, also once the annual or admission fee is recorded as paid.
C26_SummariesAgree ==
    \A s \in Students :
       LET summary == get_student_fee_summary(s)
           details == get_student_fee_details(s)
       IN  (~IsNone(summary) /\ ~IsNone(details)) =>
             /\ summary.total_yearly_due = details.total_due
             /\ summary.total_received = details.total_received
             /\ summary.balance_due = details.balance_due

\* C27: the percentage paid lies between 0 and 100 inclusive in both
\* summaries (10000 hundredths of a percent, 1000 tenths of a percent), also
\* when more has been received than is due.
C27_PercentPaidWithinHundred ==
    \A s \in Students :
       LET summary == get_student_fee_summary(s)
           details == get_student_fee_details(s)
       IN  /\ ~IsNone(summary) =>
                (0 <= summary.percentage_paid /\ summary.percentage_paid <= 10000)
           /\ ~IsNone(details) =>
                (0 <= details.percentage_paid /\ details.percentage_paid <= 1000)

\* C28: handle_parent_payment returns true exactly when it has written both
\* the ledger row and a pending_verification tracking record of the
\* transaction, and when it returns false neither store has changed.
C28_LedgerAndTrackingInStep ==
    [][last'.op = "handle_parent_payment" =>
         LET row_written ==
                /\ Len(fees_data') = Len(fees_data) + 1
                /\ fees_data'[Len(fees_data')].Transaction_ID = last'.transaction_id
             record_written ==
                /\ payments_history'.state = "ok"
                /\ StoreSize(payments_history'.data)
                     = StoreSize(payments_history.data) + 1
                /\ \E pos \in Positions(payments_history'.data) :
                      LET payment == At(payments_history'.data, pos)
                      IN  /\ payment.transaction_id = last'.transaction_id
                          /\ payment.status = "pending_verification"
         IN  /\ last'.ret <=> (row_written /\ record_written)
             /\ ~last'.ret => UNCHANGED <<fees_data, payments_history>>]_vars

\* C29: every request created by record_payment_request or by the portal form
\* gets resolved by the admin workflow: once it is in the store, verify and
\* reject calls lead to a state where it is verified or rejected.
Resolved(student_id, i) ==
    /\ i \in DOMAIN get_payment_requests(student_id)
    /\ get_payment_requests(student_id)[i].status \in {"verified", "rejected"}

C29_CreatedRequestGetsResolved ==
    \A student_id \in Students, i \in 1..MaxRequests :
       (i \in DOMAIN get_payment_requests(student_id)) ~> Resolved(student_id, i)

\* C30: in every state get_pending_parent_payments holds exactly the tracked
\* payments with status pending_verification, as many as total_pending of
\* get_payment_stats, so a payment is listed from its submission until it is
\* resolved; and a payment that is verified or rejected stays resolved over
\* every step, so it is never listed afterwards.
Occurrences(list, payment) == Cardinality({i \in DOMAIN list : list[i] = payment})

ListsExactlyThePending(pending, records) ==
    /\ \A i \in DOMAIN pending : pending[i].status = "pending_verification"
    /\ \A i \in DOMAIN records :
          Occurrences(pending, records[i])
            = IF records[i].status = "pending_verification"
              THEN Occurrences(records, records[i]) ELSE 0

C30_PendingListIsExact ==
    /\ [](LET pending == get_pending_parent_payments
              records == Flatten(payments_history.data)
          IN  /\ ListsExactlyThePending(pending, records)
              /\ Len(pending) = get_payment_stats.total_pending)
    /\ [][\A pos \in Positions(payments_history.data) :
             At(payments_history.data, pos).status \in {"verified", "rejected"}
               => At(payments_history'.data, pos).status
                    \in {"verified", "rejected"}]_vars

\* one tracked payment has just been rejected and another is still listed
C30_OneResolvedOneListed ==
    /\ last.op = "reject"
    /\ Len(get_pending_parent_payments) = 1
    /\ StoreSize(payments_history.data) = 2
    /\ get_payment_stats.total_rejected = 1

====
